---------------------------- MODULE Spec2Model ----------------------------
(***************************************************************************)
(* State-machine model of the chatbot backend in src/server.js (the last   *)
(* variant in the file, lines 409-628): the SQLite tables bots and         *)
(* documents, the multer upload directory, and the HTTP handlers.          *)
(*                                                                         *)
(* A JavaScript string is a sequence of one-character strings; the tables  *)
(* hold TEXT columns as such sequences.  An optional JSON field of a       *)
(* request body is a record [has, v]: has = FALSE is `undefined`.          *)
(***************************************************************************)
EXTENDS Naturals, Sequences, FiniteSets, TLC

VARIABLES
    HF_API_KEY,   \* TRUE iff process.env.HF_API_KEY is a non-empty string
    bots,         \* table bots, rows in insertion (rowid) order
    documents,    \* table documents, rows in insertion (rowid) order
    uploadDir,    \* the temporary files present in UPLOAD_DIR
    issued,       \* how many uuids uuidv4() has handed out
    stored,       \* how many temporary files multer has created
    now,          \* the clock Date.now() reads
    chats,        \* handleChat calls suspended at `await axios.post`
    parses,       \* upload handlers suspended at `await pdf(...)`
    res           \* the response sent by the last step (op "none": no response)

vars == <<HF_API_KEY, bots, documents, uploadDir, issued, stored, now, chats, parses, res>>

store == <<bots, documents, uploadDir, issued, stored, now>>

----------------------------------------------------------------------------
(* Bounds of the model.                                                    *)

MaxBots == 2       \* rows of table bots
MaxDocs == 2       \* rows of table documents
MaxFiles == 2      \* temporary files multer creates
MaxInFlight == 1   \* handlers suspended at an await, per kind
MaxGiven == 1      \* optional fields one request body supplies
MaxChatBots == 1   \* bots of the chat specification
MaxRegistryDocs == 1   \* documents of the registry specification

----------------------------------------------------------------------------
(* JavaScript strings.                                                     *)

Min(a, b) == IF a < b THEN a ELSE b

\* the lower-case letter of each upper-case letter
LowerOf ==
    "A" :> "a" @@ "B" :> "b" @@ "C" :> "c" @@ "D" :> "d" @@ "E" :> "e" @@ "F" :> "f" @@
    "G" :> "g" @@ "H" :> "h" @@ "I" :> "i" @@ "J" :> "j" @@ "K" :> "k" @@ "L" :> "l" @@
    "M" :> "m" @@ "N" :> "n" @@ "O" :> "o" @@ "P" :> "p" @@ "Q" :> "q" @@ "R" :> "r" @@
    "S" :> "s" @@ "T" :> "t" @@ "U" :> "u" @@ "V" :> "v" @@ "W" :> "w" @@ "X" :> "x" @@
    "Y" :> "y" @@ "Z" :> "z"

LowerChar(c) == IF c \in DOMAIN LowerOf THEN LowerOf[c] ELSE c

\* String.prototype.toLowerCase
toLowerCase(s) == [i \in 1..Len(s) |-> LowerChar(s[i])]

\* String.prototype.includes: "" is included in every string
includes(s, sub) ==
    \E i \in 0..Len(s) :
        /\ i + Len(sub) <= Len(s)
        /\ SubSeq(s, i + 1, i + Len(sub)) = sub

\* String.prototype.endsWith
endsWith(s, suffix) ==
    /\ Len(suffix) <= Len(s)
    /\ SubSeq(s, Len(s) - Len(suffix) + 1, Len(s)) = suffix

\* String.prototype.slice(0, n)
slice(s, n) == SubSeq(s, 1, Min(Len(s), n))

\* Array.prototype.slice(0, n)
sliceArr(a, n) == SubSeq(a, 1, Min(Len(a), n))

\* String.prototype.split(sep) for a one-character separator:
\* "a b".split(' ') = ["a","b"], "".split(' ') = [""], " a".split(' ') = ["","a"]
RECURSIVE split(_, _)
split(s, sep) ==
    IF \A i \in 1..Len(s) : s[i] # sep
    THEN <<s>>
    ELSE LET k == CHOOSE i \in 1..Len(s) :
                      /\ s[i] = sep
                      /\ \A j \in 1..(i - 1) : s[j] # sep
         IN  <<SubSeq(s, 1, k - 1)>> \o split(SubSeq(s, k + 1, Len(s)), sep)

\* Array.prototype.join(sep)
RECURSIVE join(_, _)
join(parts, sep) ==
    IF parts = <<>> THEN <<>>
    ELSE IF Len(parts) = 1 THEN parts[1]
    ELSE parts[1] \o <<sep>> \o join(Tail(parts), sep)

----------------------------------------------------------------------------
(* JSON.stringify / JSON.parse on arrays of strings.  The strings of the   *)
(* model hold no quote and no backslash, so no escapes are produced.       *)

Quote == "\""

JSONstringify(arr) ==
    <<"[">> \o join([i \in 1..Len(arr) |-> <<Quote>> \o arr[i] \o <<Quote>>], ",") \o <<"]">>

\* the elements of a serialized array: the texts between successive quote pairs
RECURSIVE ParseElements(_)
ParseElements(t) ==
    IF \A i \in 1..Len(t) : t[i] # Quote
    THEN <<>>
    ELSE LET open  == CHOOSE i \in 1..Len(t) :
                          t[i] = Quote /\ \A j \in 1..(i - 1) : t[j] # Quote
             close == CHOOSE i \in (open + 1)..Len(t) :
                          t[i] = Quote /\ \A j \in (open + 1)..(i - 1) : t[j] # Quote
         IN  <<SubSeq(t, open + 1, close - 1)>> \o ParseElements(SubSeq(t, close + 1, Len(t)))

JSONparse(text) == ParseElements(text)

----------------------------------------------------------------------------
(* Program constants.                                                      *)

DefaultThemeColor == <<"#","4","C","A","F","5","0">>
DefaultWelcome == <<"H","i","!"," ","H","o","w"," ","c","a","n"," ","I"," ","h","e","l","p","?">>
CantAnswerReply == <<"I"," ","f","o","u","n","d"," ","s","o","m","e","t","h","i","n","g"," ","b","u","t"," ","c","a","n","'","t"," ","m","a","k","e"," ","a"," ","f","u","l","l"," ","a","n","s","w","e","r",".">>
DontKnowReply == <<"S","o","r","r","y",","," ","I"," ","d","o","n","'","t"," ","k","n","o","w"," ","t","h","e"," ","a","n","s","w","e","r"," ","t","o"," ","t","h","a","t"," ","y","e","t","."," ","T","r","y"," ","o","n","e"," ","o","f"," ","t","h","e"," ","o","p","t","i","o","n","s",".">>
PdfMime == <<"a","p","p","l","i","c","a","t","i","o","n","/","p","d","f">>
PdfExt == <<".","p","d","f">>
ContextLimit == 800
AnswerLines == 4

----------------------------------------------------------------------------
(* Optional JSON fields and the `x || d` idiom.                            *)

Undefined == [has |-> FALSE, v |-> <<>>]
Given(x) == [has |-> TRUE, v |-> x]

\* !x for a string-valued field: undefined and "" are falsy
Falsy(x) == ~x.has \/ x.v = <<>>

\* x || d for a string-valued field
OrStr(x, d) == IF Falsy(x) THEN d ELSE x.v

\* x || d for an array-valued field: every array, [] included, is truthy
OrArr(x, d) == IF x.has THEN x.v ELSE d

----------------------------------------------------------------------------
(* Request inputs.                                                         *)

NameN == <<"n">>
AvatarA == <<"a",".","p","n","g">>
ColorRed == <<"#","f","0","0">>
WelcomeYo == <<"Y","o">>
RepliesYesNo == <<<<"y","e","s">>, <<"n","o">>>>

OptNames == {Undefined, Given(<<>>), Given(NameN)}
OptAvatars == {Undefined, Given(<<>>), Given(AvatarA)}
OptColors == {Undefined, Given(<<>>), Given(ColorRed)}
OptWelcomes == {Undefined, Given(<<>>), Given(WelcomeYo)}
OptReplies == {Undefined, Given(<<>>), Given(RepliesYesNo)}

SettingsFields == {"avatar", "themeColor", "welcome", "quickReplies"}

GivenFields(body) == {f \in SettingsFields : body[f].has}

\* the bodies of POST /api/bot/:botId/settings
SettingsBodies ==
    {b \in [avatar : OptAvatars, themeColor : OptColors, welcome : OptWelcomes,
            quickReplies : OptReplies] : Cardinality(GivenFields(b)) <= MaxGiven}

\* the bodies of POST /api/bot
BotBodies ==
    {b \in [name : OptNames, avatar : OptAvatars, themeColor : OptColors,
            welcome : OptWelcomes, quickReplies : OptReplies] :
        Cardinality(GivenFields(b)) <= MaxGiven}

\* bodies that leave avatar and themeColor out
ChatSettingsBodies == {b \in SettingsBodies : ~b.avatar.has /\ ~b.themeColor.has}
NamedBotBodies == {b \in BotBodies : b.name = Given(NameN) /\ GivenFields(b) = {}}

\* an id no uuid ever equals
UnknownId == 0

BotIds == {bots[i].id : i \in 1..Len(bots)}

\* the bot ids a request may name
RequestIds == BotIds \cup {UnknownId}

\* body.botId of POST /api/message, which may be missing
OptRequestIds == {[has |-> FALSE, v |-> UnknownId]} \cup {[has |-> TRUE, v |-> id] : id \in RequestIds}

\* document texts
TextCat == <<"T","h","e"," ","c","a","t"," ","s","a","t">>
\* five lines, the third one empty
TextDogs == <<"D","o","g","s","\n","b","a","r","k","\n","\n","a","t","\n","c","a","t","s">>

TextMime == <<"t","e","x","t","/","p","l","a","i","n">>
NameTxt == <<"a",".","t","x","t">>
NamePdf == <<"b",".","p","d","f">>

\* uploaded files: req.file as multer describes it, and the bytes it wrote
FileCat == [mimetype |-> TextMime, originalname |-> NameTxt, content |-> TextCat]
FileDogs == [mimetype |-> TextMime, originalname |-> NameTxt, content |-> TextDogs]
FileEmpty == [mimetype |-> TextMime, originalname |-> NameTxt, content |-> <<>>]
FilePdfByType == [mimetype |-> PdfMime, originalname |-> NameTxt, content |-> <<"%","P","D","F">>]
FilePdfByName == [mimetype |-> TextMime, originalname |-> NamePdf, content |-> <<"%","P","D","F">>]
NoFile == [mimetype |-> <<>>, originalname |-> <<>>, content |-> <<>>]

TextFiles == {Given(FileCat), Given(FileDogs), Given(FileEmpty)}
ChatFiles == {Given(FileCat), Given(FileDogs)}
PdfFiles == {Given(FilePdfByType), Given(FilePdfByName)}
OptFiles == TextFiles \cup PdfFiles \cup {[has |-> FALSE, v |-> NoFile]}

\* what `await pdf(buffer)` settles to: a rejection, or data with data.text
PdfOutcomes ==
    {[ok |-> FALSE, text |-> Undefined],
     [ok |-> TRUE, text |-> Undefined],
     [ok |-> TRUE, text |-> Given(TextCat)]}

\* chat messages
MsgDogs == <<"d","o","g","s"," ","a","r","e"," ","g","r","e","a","t">>
MsgZzz == <<"z","z","z">>
MsgHi == <<"H","i"," ","t","h","e","r","e">>
MsgSpaceDogs == <<" ","d","o","g","s">>
MsgHelloCat == <<"t","h","e"," ","H","E","L","L","O">>

Messages == {MsgDogs, MsgZzz, MsgHi, MsgSpaceDogs, MsgHelloCat}
OptMessages == {Undefined, Given(<<>>)} \cup {Given(m) : m \in Messages}
LegacyMessages == {Undefined, Given(<<>>), Given(MsgZzz)}

\* what `await axios.post(...)` settles to: a rejection (transport error,
\* timeout, non-2xx status), or a response whose data is an array, an object,
\* null or a string; gen is generated_text of data[0] or of data, raw is
\* JSON.stringify(data)
GenWoof == <<"W","o","o","f">>
HfOutcomes ==
    {[ok |-> FALSE, shape |-> "none", gen |-> Undefined, raw |-> <<>>],
     [ok |-> TRUE, shape |-> "array", gen |-> Given(GenWoof),
        raw |-> <<"[","{","W","o","o","f","}","]">>],
     [ok |-> TRUE, shape |-> "object", gen |-> Given(GenWoof),
        raw |-> <<"{","W","o","o","f","}">>],
     [ok |-> TRUE, shape |-> "array", gen |-> Undefined, raw |-> <<"[","]">>],
     [ok |-> TRUE, shape |-> "object", gen |-> Given(<<>>), raw |-> <<"{","}">>],
     [ok |-> TRUE, shape |-> "string", gen |-> Undefined, raw |-> <<Quote, Quote>>],
     [ok |-> TRUE, shape |-> "null", gen |-> Undefined, raw |-> <<"n","u","l","l">>]}

----------------------------------------------------------------------------
(* Helper functions over the tables.                                       *)

\* a uuid generator that hands the last id out again
uuidv4Reused == IF issued = 0 THEN issued + 1 ELSE issued

\* uuidv4(): an id that was never handed out before
uuidv4 == issued + 1

NoResponse == [op |-> "none"]

\* db.prepare('INSERT INTO bots ...').run(...), with the parameter defaults
createBotRecord(id, name, avatar, themeColor, welcome, quickReplies) ==
    /\ bots' = Append(bots,
            [id |-> id, name |-> name,
             avatar |-> IF avatar.has THEN avatar.v ELSE <<>>,
             themeColor |-> IF themeColor.has THEN themeColor.v ELSE DefaultThemeColor,
             welcome |-> IF welcome.has THEN welcome.v ELSE DefaultWelcome,
             quickReplies |-> JSONstringify(IF quickReplies.has THEN quickReplies.v ELSE <<>>),
             createdAt |-> now])
    /\ now' = now + 1

hasBot(id) == \E i \in 1..Len(bots) : bots[i].id = id

\* the row SELECT * FROM bots WHERE id = ? finds in a table that holds the id,
\* with row.quickReplies = row.quickReplies ? JSON.parse(row.quickReplies) : []
getBotIn(table, id) ==
    LET row == table[CHOOSE i \in 1..Len(table) : table[i].id = id]
    IN  [row EXCEPT !.quickReplies =
            IF row.quickReplies # <<>> THEN JSONparse(row.quickReplies) ELSE <<>>]

\* getBot(id) for an id that hasBot
getBot(id) == getBotIn(bots, id)

\* db.prepare('INSERT INTO documents ...').run(...)
saveDocument(botId, filename, text) ==
    /\ documents' = Append(documents,
            [id |-> uuidv4, botId |-> botId, filename |-> filename, text |-> text,
             addedAt |-> now])
    /\ issued' = issued + 1
    /\ now' = now + 1

\* SELECT * FROM documents WHERE botId = ?
getBotDocuments(botId) ==
    LET keep(d) == d.botId = botId
    IN  SelectSeq(documents, keep)

----------------------------------------------------------------------------
(* POST /api/bot                                                           *)

CreateBot(body) ==
    /\ UNCHANGED <<HF_API_KEY, documents, uploadDir, stored, chats, parses>>
    /\ IF Falsy(body.name)
       THEN /\ res' = [op |-> "createBot", status |-> 400, req |-> body]
            /\ UNCHANGED <<bots, issued, now>>
       ELSE /\ Len(bots) < MaxBots
            /\ issued' = issued + 1
            /\ createBotRecord(uuidv4, body.name.v,
                    Given(OrStr(body.avatar, <<>>)),
                    Given(OrStr(body.themeColor, DefaultThemeColor)),
                    Given(OrStr(body.welcome, DefaultWelcome)),
                    Given(OrArr(body.quickReplies, <<>>)))
            /\ res' = [op |-> "createBot", status |-> 200, req |-> body, botId |-> uuidv4]

----------------------------------------------------------------------------
(* GET /api/bot/:botId/settings                                            *)

GetBotSettings(botId) ==
    /\ UNCHANGED <<HF_API_KEY, store, chats, parses>>
    /\ IF ~hasBot(botId)
       THEN res' = [op |-> "getSettings", status |-> 404, botId |-> botId]
       ELSE LET bot == getBot(botId)
            IN  res' = [op |-> "getSettings", status |-> 200, botId |-> botId,
                        body |-> [id |-> bot.id, name |-> bot.name, avatar |-> bot.avatar,
                                  themeColor |-> bot.themeColor, welcome |-> bot.welcome,
                                  quickReplies |-> bot.quickReplies]]

----------------------------------------------------------------------------
(* POST /api/bot/:botId/settings                                           *)

\* the UPDATE without its WHERE clause
updateBotEveryRow(botId, avatar, themeColor, welcome, quickReplies) ==
    bots' = [i \in 1..Len(bots) |->
                [bots[i] EXCEPT !.avatar = avatar, !.themeColor = themeColor,
                                !.welcome = welcome, !.quickReplies = quickReplies]]

\* UPDATE bots SET avatar=?, themeColor=?, welcome=?, quickReplies=? WHERE id=?
updateBot(botId, avatar, themeColor, welcome, quickReplies) ==
    bots' = [i \in 1..Len(bots) |->
                IF bots[i].id = botId
                THEN [bots[i] EXCEPT !.avatar = avatar, !.themeColor = themeColor,
                                     !.welcome = welcome, !.quickReplies = quickReplies]
                ELSE bots[i]]

UpdateBotSettings(botId, body) ==
    /\ UNCHANGED <<HF_API_KEY, documents, uploadDir, issued, stored, now, chats, parses>>
    /\ IF ~hasBot(botId)
       THEN /\ res' = [op |-> "updateSettings", status |-> 404, botId |-> botId, req |-> body]
            /\ UNCHANGED bots
       ELSE LET bot == getBot(botId)
            IN  /\ updateBot(botId,
                        OrStr(body.avatar, bot.avatar),
                        OrStr(body.themeColor, bot.themeColor),
                        OrStr(body.welcome, bot.welcome),
                        JSONstringify(OrArr(body.quickReplies, bot.quickReplies)))
                /\ res' = [op |-> "updateSettings", status |-> 200, botId |-> botId, req |-> body]

----------------------------------------------------------------------------
(* POST /api/bot/:botId/upload                                             *)

\* req.file.mimetype === 'application/pdf' || req.file.originalname.endsWith('.pdf')
isPdf(file) == file.mimetype = PdfMime \/ endsWith(file.originalname, PdfExt)

\* fs.readFileSync(filepath) in a directory that holds the file
readFileSync(dir, filepath) == (CHOOSE f \in dir : f.path = filepath).content

\* the directory after fs.unlinkSync(filepath)
unlinkSync(dir, filepath) == {f \in dir : f.path # filepath}

\* the upload handler without its `if (!bot)` return
UploadUnchecked(botId, file) ==
    LET filepath == stored + 1
        written  == IF file.has
                    THEN uploadDir \cup {[path |-> filepath, content |-> file.v.content]}
                    ELSE uploadDir
        echo     == [op |-> "upload", botId |-> botId, file |-> file,
                     path |-> IF file.has THEN filepath ELSE 0]
    IN  /\ UNCHANGED <<HF_API_KEY, bots, chats>>
        /\ file.has => stored < MaxFiles
        /\ stored' = IF file.has THEN stored + 1 ELSE stored
        /\ IF ~file.has
           THEN /\ res' = echo @@ [status |-> 400]
                /\ uploadDir' = written
                /\ UNCHANGED <<documents, issued, now, parses>>
           ELSE IF isPdf(file.v)
           THEN /\ Cardinality(parses) < MaxInFlight
                /\ parses' = parses \cup
                        {[botId |-> botId, file |-> file, filepath |-> filepath]}
                /\ res' = NoResponse
                /\ uploadDir' = written
                /\ UNCHANGED <<documents, issued, now>>
           ELSE /\ Len(documents) < MaxDocs
                /\ saveDocument(botId, file.v.originalname, readFileSync(written, filepath))
                /\ uploadDir' = unlinkSync(written, filepath)
                /\ res' = echo @@ [status |-> 200, filename |-> file.v.originalname]
                /\ UNCHANGED parses

\* The multer middleware writes the uploaded file, if any, under a fresh name
\* into UPLOAD_DIR; then the handler runs up to its response or to `await pdf`.
Upload(botId, file) ==
    LET filepath == stored + 1
        written  == IF file.has
                    THEN uploadDir \cup {[path |-> filepath, content |-> file.v.content]}
                    ELSE uploadDir
        echo     == [op |-> "upload", botId |-> botId, file |-> file,
                     path |-> IF file.has THEN filepath ELSE 0]
    IN  /\ UNCHANGED <<HF_API_KEY, bots, chats>>
        /\ file.has => stored < MaxFiles
        /\ stored' = IF file.has THEN stored + 1 ELSE stored
        /\ IF ~hasBot(botId)
           THEN /\ res' = echo @@ [status |-> 404]
                /\ uploadDir' = written
                /\ UNCHANGED <<documents, issued, now, parses>>
           ELSE IF ~file.has
           THEN /\ res' = echo @@ [status |-> 400]
                /\ uploadDir' = written
                /\ UNCHANGED <<documents, issued, now, parses>>
           ELSE IF isPdf(file.v)
           THEN /\ Cardinality(parses) < MaxInFlight
                /\ parses' = parses \cup
                        {[botId |-> botId, file |-> file, filepath |-> filepath]}
                /\ res' = NoResponse
                /\ uploadDir' = written
                /\ UNCHANGED <<documents, issued, now>>
           ELSE /\ Len(documents) < MaxDocs
                /\ saveDocument(botId, file.v.originalname, readFileSync(written, filepath))
                /\ uploadDir' = unlinkSync(written, filepath)
                /\ res' = echo @@ [status |-> 200, filename |-> file.v.originalname]
                /\ UNCHANGED parses

\* `await pdf(...)` settles and the handler runs to its response
UploadPdfDone(p, outcome) ==
    LET echo == [op |-> "upload", botId |-> p.botId, file |-> p.file, path |-> p.filepath]
    IN  /\ p \in parses
        /\ parses' = parses \ {p}
        /\ UNCHANGED <<HF_API_KEY, bots, stored, chats>>
        /\ IF outcome.ok
           THEN /\ Len(documents) < MaxDocs
                /\ saveDocument(p.botId, p.file.v.originalname, OrStr(outcome.text, <<>>))
                /\ uploadDir' = unlinkSync(uploadDir, p.filepath)
                /\ res' = echo @@ [status |-> 200, filename |-> p.file.v.originalname]
           ELSE /\ res' = echo @@ [status |-> 500]
                /\ UNCHANGED <<documents, uploadDir, issued, now>>

----------------------------------------------------------------------------
(* handleChat, POST /api/bot/:botId/chat and POST /api/message             *)

\* message.toLowerCase().split(' ')[0]
firstWord(message) == split(toLowerCase(message), " ")[1]

\* the loop over docs: the first document with a non-empty text that includes
\* the first word, cut to ContextLimit characters; '' when there is none
findContext(docs, message) ==
    LET hits == {i \in 1..Len(docs) :
                    /\ docs[i].text # <<>>
                    /\ includes(toLowerCase(docs[i].text), firstWord(message))}
    IN  IF hits = {} THEN <<>>
        ELSE slice(docs[CHOOSE i \in hits : \A j \in hits : i <= j].text, ContextLimit)

\* the loop evaluates message.toLowerCase() once it meets a non-empty text
loopReadsMessage(docs) == \E i \in 1..Len(docs) : docs[i].text # <<>>

\* lower.includes('hello') || lower.includes('hi')
isGreeting(message) ==
    LET lower == toLowerCase(message)
    IN  includes(lower, <<"h","e","l","l","o">>) \/ includes(lower, <<"h","i">>)

\* foundText.split('\n').slice(0, 4).join('\n')
firstLines(foundText) == join(sliceArr(split(foundText, "\n"), AnswerLines), "\n")

\* the local rules with the context answer tried before the greeting
localReplyContextFirst(bot, foundText, message) ==
    IF foundText # <<>>
    THEN (IF firstLines(foundText) # <<>> THEN firstLines(foundText) ELSE CantAnswerReply)
    ELSE IF isGreeting(message) THEN bot.welcome
    ELSE DontKnowReply

\* the reply of the statements after the inference block
localReply(bot, foundText, message) ==
    IF isGreeting(message) THEN bot.welcome
    ELSE IF foundText # <<>>
    THEN (IF firstLines(foundText) # <<>> THEN firstLines(foundText) ELSE CantAnswerReply)
    ELSE DontKnowReply

\* the text the try block takes out of hfRes.data; hfThrows when reading
\* generated_text of null throws
hfThrows(outcome) == ~outcome.ok \/ outcome.shape = "null"

hfText(outcome) ==
    IF ~Falsy(outcome.gen) THEN outcome.gen.v ELSE outcome.raw

NoInference == [ok |-> FALSE, shape |-> "off", gen |-> Undefined, raw |-> <<>>]

chatEcho(endpoint, botId, message, outcome) ==
    [op |-> "chat", endpoint |-> endpoint, botId |-> botId, message |-> message,
     inference |-> outcome]

\* the response of the route once handleChat threw
chatError(endpoint, botId, message, outcome) ==
    chatEcho(endpoint, botId, message, outcome) @@ [status |-> 500]

\* the response of the route once handleChat returned
chatResult(c, outcome, reply) ==
    chatEcho(c.endpoint, c.botId, c.message, outcome) @@
        [status |-> 200, reply |-> reply, quickReplies |-> c.bot.quickReplies,
         bot |-> c.bot, docs |-> c.docs, foundText |-> c.foundText]

\* the statements of handleChat after the inference block, and the route's answer
answerLocally(c, outcome) ==
    IF ~c.message.has
    THEN res' = chatError(c.endpoint, c.botId, c.message, outcome)
    ELSE res' = chatResult(c, outcome, localReply(c.bot, c.foundText, c.message.v))

\* The route and handleChat up to the response or to `await axios.post`.
\* endpoint "message" is POST /api/message (botId and message from the body),
\* "chat" is POST /api/bot/:botId/chat (botId from the path).
Chat(endpoint, botId, message) ==
    /\ UNCHANGED <<HF_API_KEY, store, parses>>
    /\ endpoint = "chat" => botId.has
    /\ IF endpoint = "message" /\ (~botId.has \/ Falsy(message))
       THEN /\ res' = chatEcho(endpoint, botId, message, NoInference) @@ [status |-> 400]
            /\ UNCHANGED chats
       ELSE IF ~hasBot(botId.v)
       THEN /\ res' = chatError(endpoint, botId, message, NoInference)
            /\ UNCHANGED chats
       ELSE LET docs == getBotDocuments(botId.v)
            IN  IF ~message.has /\ loopReadsMessage(docs)
                THEN /\ res' = chatError(endpoint, botId, message, NoInference)
                     /\ UNCHANGED chats
                ELSE LET c == [endpoint |-> endpoint, botId |-> botId, message |-> message,
                               bot |-> getBot(botId.v), docs |-> docs,
                               foundText |-> IF message.has
                                             THEN findContext(docs, message.v) ELSE <<>>]
                     IN  IF HF_API_KEY
                         THEN /\ Cardinality(chats) < MaxInFlight
                              /\ chats' = chats \cup {c}
                              /\ res' = NoResponse
                         ELSE /\ answerLocally(c, NoInference)
                              /\ UNCHANGED chats

\* handleChat without the catch around the inference call
ChatDoneUncaught(c, outcome) ==
    /\ c \in chats
    /\ chats' = chats \ {c}
    /\ UNCHANGED <<HF_API_KEY, store, parses>>
    /\ IF hfThrows(outcome)
       THEN res' = chatError(c.endpoint, c.botId, c.message, outcome)
       ELSE res' = chatResult(c, outcome, hfText(outcome))

\* `await axios.post(...)` settles and handleChat runs to its end
ChatDone(c, outcome) ==
    /\ c \in chats
    /\ chats' = chats \ {c}
    /\ UNCHANGED <<HF_API_KEY, store, parses>>
    /\ IF hfThrows(outcome)
       THEN answerLocally(c, outcome)
       ELSE res' = chatResult(c, outcome, hfText(outcome))

----------------------------------------------------------------------------
(* The server.                                                             *)

Init ==
    /\ HF_API_KEY \in BOOLEAN
    /\ bots = <<>>
    /\ documents = <<>>
    /\ uploadDir = {}
    /\ issued = 0
    /\ stored = 0
    /\ now = 0
    /\ chats = {}
    /\ parses = {}
    /\ res = NoResponse

\* the server started without HF_API_KEY in its environment
InitNoKey == Init /\ ~HF_API_KEY

\* the bot registry: every body of POST /api/bot and of the settings routes
NextRegistry ==
    \/ \E body \in BotBodies : CreateBot(body)
    \/ \E botId \in RequestIds : GetBotSettings(botId)
    \/ \E botId \in RequestIds, body \in SettingsBodies : UpdateBotSettings(botId, body)
    \/ Len(documents) < MaxRegistryDocs /\ \E botId \in BotIds : Upload(botId, Given(FileCat))

SpecRegistry == InitNoKey /\ [][NextRegistry]_vars

\* document ingestion
NextUpload ==
    \/ \E body \in NamedBotBodies : CreateBot(body)
    \/ \E botId \in RequestIds, file \in OptFiles : Upload(botId, file)
    \/ \E p \in parses, outcome \in PdfOutcomes : UploadPdfDone(p, outcome)

SpecUpload == InitNoKey /\ [][NextUpload]_vars

\* chat
NextChat ==
    \/ Len(bots) < MaxChatBots /\ \E body \in NamedBotBodies : CreateBot(body)
    \/ \E botId \in RequestIds, body \in ChatSettingsBodies : UpdateBotSettings(botId, body)
    \/ \E botId \in BotIds, file \in ChatFiles : Upload(botId, file)
    \/ \E botId \in OptRequestIds, message \in OptMessages : Chat("message", botId, message)
    \/ \E botId \in OptRequestIds, message \in LegacyMessages : Chat("chat", botId, message)
    \/ \E c \in chats, outcome \in HfOutcomes : ChatDone(c, outcome)

SpecChat == Init /\ [][NextChat]_vars

----------------------------------------------------------------------------
(* Claims about the bot registry, checked under SpecRegistry.              *)

\* the settings GET /api/bot/:botId/settings answers with for a bot of a table
settingsOf(table, id) ==
    LET bot == getBotIn(table, id)
    IN  [avatar |-> bot.avatar, themeColor |-> bot.themeColor, welcome |-> bot.welcome,
         quickReplies |-> bot.quickReplies]

updated == res.op = "updateSettings" /\ res.status = 200

\* C1: after UpdateBotSettings on an existing bot every supplied field (an
\* empty string or empty list included) is stored as supplied, and every
\* omitted field keeps its stored value.
C1_SuppliedReplacesOmittedRetained ==
    [][res'.op = "updateSettings" /\ res'.status = 200 =>
        \A f \in SettingsFields :
            settingsOf(bots', res'.botId)[f] =
                IF res'.req[f].has THEN res'.req[f].v
                ELSE settingsOf(bots, res'.botId)[f]]_vars

\* C8: right after CreateBot, GetBotSettings returns every supplied optional
\* field as supplied and every omitted one as its default, and asking twice
\* gives the same answer.
DefaultSettings ==
    [avatar |-> <<>>, themeColor |-> DefaultThemeColor, welcome |-> DefaultWelcome,
     quickReplies |-> <<>>]

C8_CreateThenGetRoundTrips ==
    /\ res.op = "createBot" /\ res.status = 200 =>
            \A f \in SettingsFields :
                settingsOf(bots, res.botId)[f] =
                    IF res.req[f].has THEN res.req[f].v ELSE DefaultSettings[f]
    /\ res.op = "getSettings" /\ res.status = 200 =>
            /\ res.body.id = res.botId
            /\ \A f \in SettingsFields : res.body[f] = settingsOf(bots, res.botId)[f]

\* C9: an UpdateBotSettings request leaves the fields it does not supply, the
\* bot's id, name and createdAt, every other bot and every document unchanged.
C9_UpdateFrame ==
    [][res'.op = "updateSettings" =>
        /\ documents' = documents
        /\ Len(bots') = Len(bots)
        /\ \A i \in 1..Len(bots) :
            /\ bots'[i].id = bots[i].id
            /\ bots'[i].name = bots[i].name
            /\ bots'[i].createdAt = bots[i].createdAt
            /\ bots[i].id # res'.botId => bots'[i] = bots[i]
            /\ bots[i].id = res'.botId =>
                    \A f \in SettingsFields \ GivenFields(res'.req) :
                        /\ bots'[i][f] = bots[i][f]
                        /\ settingsOf(bots', res'.botId)[f] = settingsOf(bots, res'.botId)[f]]_vars

\* an update that supplied only the avatar answered ok for a bot whose other
\* fields are not the defaults, while another bot and a document are stored
C9_Witness ==
    /\ updated
    /\ GivenFields(res.req) = {"avatar"}
    /\ res.req.avatar.v = AvatarA
    /\ Len(bots) = 2
    /\ documents # <<>>
    /\ settingsOf(bots, res.botId).welcome = WelcomeYo
    /\ settingsOf(bots, res.botId).quickReplies = RepliesYesNo

\* C10: CreateBot without a name answers 400 and changes nothing; with a name
\* it appends exactly one bot whose id no stored bot has, so ids stay distinct.
C10_CreateValidatesAndIsFresh ==
    [][res'.op = "createBot" =>
        IF Falsy(res'.req.name)
        THEN res'.status = 400 /\ bots' = bots /\ documents' = documents
        ELSE /\ res'.status = 200
             /\ Len(bots') = Len(bots) + 1
             /\ SubSeq(bots', 1, Len(bots)) = bots
             /\ bots'[Len(bots')].id = res'.botId
             /\ bots'[Len(bots')].name = res'.req.name.v
             /\ \A i \in 1..Len(bots) : bots[i].id # res'.botId
             /\ \A i, j \in 1..Len(bots') : bots'[i].id = bots'[j].id => i = j
             /\ documents' = documents]_vars

\* a second bot was created while a first one and a document are stored
C10_Witness ==
    /\ res.op = "createBot" /\ res.status = 200
    /\ Len(bots) = 2
    /\ documents # <<>>

\* C12: when two UpdateBotSettings requests for the same bot that supply
\* disjoint fields are handled one right after the other, in either order,
\* every value either of them supplied is stored once the second has answered.
C12_NoLostUpdate ==
    [][/\ updated
       /\ res'.op = "updateSettings" /\ res'.status = 200
       /\ res'.botId = res.botId
       /\ GivenFields(res.req) # {} /\ GivenFields(res'.req) # {}
       /\ GivenFields(res.req) \cap GivenFields(res'.req) = {}
       => /\ \A f \in GivenFields(res.req) :
                settingsOf(bots', res'.botId)[f] = res.req[f].v
          /\ \A f \in GivenFields(res'.req) :
                settingsOf(bots', res'.botId)[f] = res'.req[f].v]_vars

----------------------------------------------------------------------------
(* Claims about document ingestion, checked under SpecUpload.              *)

\* C3: when an upload request that created a temporary file is answered, with
\* 200, 404 or 500, the temporary file is no longer in the upload directory.
C3_TempFileReleased ==
    res.op = "upload" /\ res.file.has =>
        \A f \in uploadDir : f.path # res.path

\* every stored document names a stored bot
DocumentsOwned == \A i \in 1..Len(documents) : hasBot(documents[i].botId)

\* C11: every stored document's botId is the id of a stored bot; an upload for
\* an id no bot has answers 404 and stores nothing; a step stores at most one
\* document, for a bot stored before the step, and never changes or removes a
\* stored document.
C11_DocumentsBelongToBots ==
    /\ []DocumentsOwned
    /\ [][/\ Len(documents') >= Len(documents)
          /\ SubSeq(documents', 1, Len(documents)) = documents
          /\ Len(documents') <= Len(documents) + 1
          /\ \A i \in (Len(documents) + 1)..Len(documents') :
                \E j \in 1..Len(bots) : bots[j].id = documents'[i].botId
          /\ res'.op = "upload" /\ res'.botId \notin BotIds =>
                res'.status = 404 /\ documents' = documents]_vars

\* an upload for an unknown bot was answered 404 while two bots are stored
\* and the second one holds a document stored after `await pdf`
C11_Witness ==
    /\ res.op = "upload" /\ res.status = 404 /\ res.file.has
    /\ Len(bots) = 2
    /\ documents # <<>>
    /\ \E i \in 1..Len(documents) :
            documents[i].filename = NamePdf /\ documents[i].botId = bots[2].id

----------------------------------------------------------------------------
(* Claims about chat, checked under SpecChat.                              *)

answered == res.op = "chat" /\ res.status = 200

\* the message holds "hi" or "hello", in any case
ExpectedGreeting(message) ==
    LET lower == toLowerCase(message)
        at(i, c) == i <= Len(lower) /\ lower[i] = c
    IN  \E i \in 1..Len(lower) :
            /\ at(i, "h")
            /\ \/ at(i + 1, "i")
               \/ at(i + 1, "e") /\ at(i + 2, "l") /\ at(i + 3, "l") /\ at(i + 4, "o")

\* the text before the fourth line break, the whole text if it has fewer
ExpectedFirstFour(context) ==
    LET breaks == {i \in 1..Len(context) : context[i] = "\n"}
    IN  IF Cardinality(breaks) < 4 THEN context
        ELSE SubSeq(context, 1,
                (CHOOSE k \in breaks : Cardinality({j \in breaks : j < k}) = 3) - 1)

\* the reply of Resolve when no inference credential is configured
ExpectedLocalReply(welcome, context, message) ==
    IF ExpectedGreeting(message) THEN welcome
    ELSE IF context # <<>>
    THEN (IF ExpectedFirstFour(context) # <<>>
          THEN ExpectedFirstFour(context) ELSE CantAnswerReply)
    ELSE DontKnowReply

\* the inference call was made
called(outcome) == outcome.shape # "off"

\* C2: quickReplies of a chat response is the bot's quick-reply list as stored
\* when the response is sent.
C2_QuickRepliesCurrent ==
    answered => res.quickReplies = settingsOf(bots, res.botId.v).quickReplies

C5_UnknownBotIs404 ==
    res.op = "chat" /\ res.botId.has /\ ~hasBot(res.botId.v)
        /\ (res.endpoint = "message" => ~Falsy(res.message)) =>
            res.status = 404

ClaimedFindContext(docs, message) ==
    LET token == split(toLowerCase(message), " ")[1]
        hits  == {i \in 1..Len(docs) : includes(toLowerCase(docs[i].text), token)}
    IN  IF token = <<>> \/ hits = {} THEN <<>>
        ELSE SubSeq(docs[CHOOSE i \in hits : \A j \in hits : i <= j].text, 1,
                    Min(ContextLimit, Len(docs[CHOOSE i \in hits : \A j \in hits : i <= j].text)))

\* C7: the context handleChat retrieves is the one FindContext is claimed to
\* return, the empty string for a message without a first token.
C7_FindContextAsClaimed ==
    answered /\ res.message.has =>
        res.foundText = ClaimedFindContext(res.docs, res.message.v)

=============================================================================
